---------------------------- MODULE Spec2Model ----------------------------
(***************************************************************************)
(* system_monitor.py: SensorData (acquisition of the `sensors` text, the   *)
(* line-by-line parse, the per-channel rolling histories) and the part of  *)
(* SystemMonitor that consumes it once per animation frame (_update_plot,  *)
(* _update_fan_indicators).                                                *)
(*                                                                         *)
(* Text is modelled as text: a raw capture is a TLA+ string, split into    *)
(* lines, stripped, searched for substrings and matched against the five   *)
(* regular expressions of _parse_sensors_output character by character.    *)
(* A Python dict is a sequence of <<key, value>> pairs in insertion order, *)
(* a deque is a record of its maxlen and its items, oldest first.          *)
(***************************************************************************)
EXTENDS Integers, Sequences, FiniteSets, TLC

(***************************************************************************)
(* Strings (str methods used by the parser).  The helpers that walk a text *)
(* are functions: a function is applied to the value of its argument, so   *)
(* the text is computed once however often the body reads it.              *)
(***************************************************************************)
Char(s, i) == SubSeq(s, i, i)

DigitChars == {"0", "1", "2", "3", "4", "5", "6", "7", "8", "9"}

\* the characters str.strip() removes and \s matches, among those a line
\* of the capture can hold
Whitespace == {" ", "\t", "\n"}

UpperAlphabet == "ABCDEFGHIJKLMNOPQRSTUVWXYZ"

LowerAlphabet == "abcdefghijklmnopqrstuvwxyz"

\* `sub in s`
Contains[s \in STRING, sub \in STRING] ==
    \E i \in 1..(Len(s) - Len(sub) + 1) : SubSeq(s, i, i + Len(sub) - 1) = sub

LowerChar[c \in STRING] ==
    IF \E i \in 1..26 : Char(UpperAlphabet, i) = c
    THEN Char(LowerAlphabet, CHOOSE i \in 1..26 : Char(UpperAlphabet, i) = c)
    ELSE c

\* s.lower()
Lower[s \in STRING] ==
    IF s = "" THEN "" ELSE LowerChar[Char(s, 1)] \o Lower[Tail(s)]

LStrip[s \in STRING] ==
    IF s # "" /\ Char(s, 1) \in Whitespace THEN LStrip[Tail(s)] ELSE s

RStrip[s \in STRING] ==
    IF s # "" /\ Char(s, Len(s)) \in Whitespace
    THEN RStrip[SubSeq(s, 1, Len(s) - 1)]
    ELSE s

\* s.strip()
Strip[s \in STRING] == RStrip[LStrip[s]]

\* s.split(sep, 1)[0], sep one character
BeforeFirst[s \in STRING, sep \in STRING] ==
    IF s = "" \/ Char(s, 1) = sep THEN ""
    ELSE Char(s, 1) \o BeforeFirst[Tail(s), sep]

\* s.splitlines(), the line boundary being "\n"
SplitLines[s \in STRING] ==
    IF s = "" THEN << >>
    ELSE << BeforeFirst[s, "\n"] >>
            \o SplitLines[SubSeq(s, Len(BeforeFirst[s, "\n"]) + 2, Len(s))]

DigitValue[c \in STRING] == CHOOSE d \in 0..9 : Char("0123456789", d + 1) = c

\* int(s), s a run of decimal digits
ParseInt[s \in STRING] ==
    IF s = "" THEN 0
    ELSE 10 * ParseInt[SubSeq(s, 1, Len(s) - 1)] + DigitValue[Char(s, Len(s))]

Pow10[n \in Nat] == IF n = 0 THEN 1 ELSE 10 * Pow10[n - 1]

StripTrailingZeros[s \in STRING] ==
    IF s # "" /\ Char(s, Len(s)) = "0"
    THEN StripTrailingZeros[SubSeq(s, 1, Len(s) - 1)]
    ELSE s

\* the digits of s after its first "."
Fraction[s \in STRING] ==
    StripTrailingZeros[SubSeq(s, Len(BeforeFirst[s, "."]) + 2, Len(s))]

\* float(s), s = digits "." digits: the decimal number n / 10^e in lowest
\* decimal form (45.0 and 45.00 are the same value, 45.5 another)
ParseFloat[s \in STRING] ==
    [n |-> ParseInt[BeforeFirst[s, "."]] * Pow10[Len(Fraction[s])]
              + ParseInt[Fraction[s]],
     e |-> Len(Fraction[s])]

(***************************************************************************)
(* Regular expressions.  A pattern is a sequence of segments (the capture  *)
(* groups and the text between them), a segment a sequence of atoms: one   *)
(* literal character, \d+ or \s+.  In each pattern of the parser a + atom  *)
(* is followed by an atom that rejects the characters it takes, so the     *)
(* longest run is the only run a match can use.                            *)
(***************************************************************************)
Atom == [cls : {"lit", "\\d+", "\\s+"}, ch : STRING]

Lit(c) == [cls |-> "lit", ch |-> c]

DigitRun == [cls |-> "\\d+", ch |-> ""]

SpaceRun == [cls |-> "\\s+", ch |-> ""]

Text(str) == [i \in 1..Len(str) |-> Lit(Char(str, i))]

Accepts(a, c) ==
    CASE a.cls = "lit"   -> c = a.ch
      [] a.cls = "\\d+"  -> c \in DigitChars
      [] a.cls = "\\s+"  -> c \in Whitespace

\* the index after the run of characters atom a accepts from index i on
RunEnd[a \in Atom, s \in STRING, i \in Nat] ==
    IF i <= Len(s) /\ Accepts(a, Char(s, i)) THEN RunEnd[a, s, i + 1] ELSE i

\* the index after a match of atoms[k..] at index i of s; 0 when none
MatchAtoms[atoms \in Seq(Atom), k \in Nat, s \in STRING, i \in Nat] ==
    IF k > Len(atoms) THEN i
    ELSE IF atoms[k].cls = "lit"
         THEN IF i <= Len(s) /\ Accepts(atoms[k], Char(s, i))
              THEN MatchAtoms[atoms, k + 1, s, i + 1]
              ELSE 0
         ELSE IF RunEnd[atoms[k], s, i] = i THEN 0
              ELSE MatchAtoms[atoms, k + 1, s, RunEnd[atoms[k], s, i]]

\* the boundaries of a match that starts at i and goes on with rest
Boundaries[i \in Nat, rest \in Seq(Nat)] ==
    IF rest = << >> THEN << >> ELSE << i >> \o rest

\* the segment boundaries <<i, i1, ..>> of a match of segs[k..] at index i
\* of s; << >> when none
MatchSegments[segs \in Seq(Seq(Atom)), k \in Nat, s \in STRING, i \in Nat] ==
    IF k > Len(segs) THEN << i >>
    ELSE IF MatchAtoms[segs[k], 1, s, i] = 0 THEN << >>
         ELSE Boundaries[i, MatchSegments[segs, k + 1, s,
                                          MatchAtoms[segs[k], 1, s, i]]]

\* the boundaries of the leftmost match that starts at index i or later
SearchFrom[segs \in Seq(Seq(Atom)), s \in STRING, i \in Nat] ==
    IF i > Len(s) THEN << >>
    ELSE IF MatchSegments[segs, 1, s, i] # << >>
         THEN MatchSegments[segs, 1, s, i]
         ELSE SearchFrom[segs, s, i + 1]

\* re.search(pattern, s): the boundaries of the leftmost match; << >>
Search[segs \in Seq(Seq(Atom)), s \in STRING] == SearchFrom[segs, s, 1]

\* the text of segment k of a match with boundaries b
Group[s \in STRING, b \in Seq(Nat), k \in Nat] == SubSeq(s, b[k], b[k + 1] - 1)

DecimalAtoms == << DigitRun >> \o Text(".") \o << DigitRun >>

\* (Core \d+):\s+\+(\d+\.\d+)°C
CoreRegex ==
    << Text("Core ") \o << DigitRun >>,
       Text(":") \o << SpaceRun >> \o Text("+"),
       DecimalAtoms,
       Text("°C") >>

\* (Package id \d+):\s+\+(\d+\.\d+)°C
PackageRegex ==
    << Text("Package id ") \o << DigitRun >>,
       Text(":") \o << SpaceRun >> \o Text("+"),
       DecimalAtoms,
       Text("°C") >>

\* (fan\d+):\s+(\d+) RPM\s+ : the part of the fan pattern before its
\* optional group
FanRegex ==
    << Text("fan") \o << DigitRun >>,
       Text(":") \o << SpaceRun >>,
       << DigitRun >>,
       Text(" RPM") \o << SpaceRun >> >>

\* (?:\(min\s+=\s+\d+ RPM,\s+max\s+=\s+(\d+) RPM\))? : the optional group
FanLimitsRegex ==
    << Text("(min") \o << SpaceRun >> \o Text("=") \o << SpaceRun, DigitRun >>
         \o Text(" RPM,") \o << SpaceRun >> \o Text("max") \o << SpaceRun >>
         \o Text("=") \o << SpaceRun >>,
       << DigitRun >>,
       Text(" RPM)") >>

\* Composite:\s+\+(\d+\.\d+)°C
CompositeRegex ==
    << Text("Composite:") \o << SpaceRun >> \o Text("+"),
       DecimalAtoms,
       Text("°C") >>

\* (temp\d+):\s+\+(\d+\.\d+)°C
TempRegex ==
    << Text("temp") \o << DigitRun >>,
       Text(":") \o << SpaceRun >> \o Text("+"),
       DecimalAtoms,
       Text("°C") >>

\* the max-RPM group of the fan pattern, the mandatory part of the match
\* ending before index i: "" for None (the group, \d+, never matches the
\* empty text)
FanMaxGroup[line \in STRING, i \in Nat] ==
    IF MatchSegments[FanLimitsRegex, 1, line, i] = << >> THEN ""
    ELSE Group[line, MatchSegments[FanLimitsRegex, 1, line, i], 2]

\* match.groups() of the fan pattern given the boundaries b of its
\* mandatory part: << >> when there is no match, else <<fan, speed, max_speed>>
FanGroupsAt[line \in STRING, b \in Seq(Nat)] ==
    IF b = << >> THEN << >>
    ELSE << Group[line, b, 1], Group[line, b, 3], FanMaxGroup[line, b[5]] >>

\* match.groups() of the fan pattern on line
FanGroups[line \in STRING] == FanGroupsAt[line, Search[FanRegex, line]]

(***************************************************************************)
(* dict                                                                    *)
(***************************************************************************)
Keys(d) == {d[i][1] : i \in DOMAIN d}

Has(d, k) == k \in Keys(d)

Get(d, k) == d[CHOOSE i \in DOMAIN d : d[i][1] = k][2]

\* d[k] = v: a new key goes last, a key d holds keeps its place
Put(d, k, v) ==
    IF Has(d, k)
    THEN [i \in DOMAIN d |-> IF d[i][1] = k THEN << k, v >> ELSE d[i]]
    ELSE Append(d, << k, v >>)

(***************************************************************************)
(* deque(maxlen = n)                                                       *)
(***************************************************************************)
NewDeque(n) == [maxlen |-> n, items |-> << >>]

\* append of a deque without maxlen
DequeAppendUnbounded(dq, v) == [dq EXCEPT !.items = Append(@, v)]

\* dq.append(v): at maxlen the oldest item is dropped from the left
DequeAppend(dq, v) ==
    IF dq.maxlen = 0 THEN dq
    ELSE IF Len(dq.items) = dq.maxlen
         THEN [dq EXCEPT !.items = Append(Tail(@), v)]
         ELSE [dq EXCEPT !.items = Append(@, v)]

(***************************************************************************)
(* class SensorData                                                        *)
(***************************************************************************)
default_max_data_points == 60

DefaultMaxFanSpeed == 4000

\* the name of the scan before any adapter line
InitialAdapter == "unknown"

\* SensorData.__init__, max_data_points being the configured capacity
NewSensorData(capacity) ==
    [cpu_temps            |-> << >>,
     fan_speeds           |-> << >>,
     storage_temps        |-> << >>,
     other_temps          |-> << >>,
     max_data_points      |-> capacity,
     cpu_temp_history     |-> << >>,
     fan_speed_history    |-> << >>,
     storage_temp_history |-> << >>,
     other_temp_history   |-> << >>,
     max_fan_speeds       |-> << >>]

(***************************************************************************)
(* The captures `sensors` returns                                          *)
(***************************************************************************)
\* a CPU with a package and a core, a fan with its rated limits
OutDesktop ==
    "coretemp-isa-0000\n"
    \o "Adapter: ISA adapter\n"
    \o "Package id 0:  +45.0°C  (high = +80.0°C, crit = +100.0°C)\n"
    \o "Core 0:        +43.0°C  (high = +80.0°C, crit = +100.0°C)\n"
    \o "\n"
    \o "fan1:        2125 RPM  (min =    0 RPM, max = 3700 RPM)\n"

\* fans without a max-RPM clause, and a core whose value has no decimals
OutBareFans ==
    "fan1:        4200 RPM  (min =    0 RPM)\n"
    \o "fan2:        1000 RPM\n"
    \o "Core 0:        +50.5°C\n"
    \o "Core 1:        +47°C\n"

\* three chips as lm-sensors prints them: the chip name, then the adapter
\* line, then the readings
OutLaptop ==
    "nvme-pci-0100\n"
    \o "Adapter: PCI adapter\n"
    \o "Composite:    +38.0°C  (low  = -273.1°C, high = +81.8°C)\n"
    \o "\n"
    \o "acpitz-acpi-0\n"
    \o "Adapter: ACPI interface\n"
    \o "temp1:        +27.8°C\n"
    \o "\n"
    \o "pch_skylake-virtual-0\n"
    \o "Adapter: Virtual device\n"
    \o "temp1:        +52.0°C\n"

\* adapter lines that carry a name before their first colon
OutNamed ==
    "NVMe Adapter: PCI adapter\n"
    \o "Composite:    +38.0°C\n"
    \o "temp1:        +30.0°C\n"
    \o "acpitz Adapter: ACPI interface\n"
    \o "temp1:        +27.8°C\n"
    \o "Composite:    +41.0°C\n"

\* a fan whose rated maximum reads 0
OutZeroMax ==
    "fan1:        1000 RPM  (min =    0 RPM, max =    0 RPM)\n"

\* readings before any adapter line, another maximum for fan1
OutNoHeader ==
    "Composite:    +38.0°C\n"
    \o "fan1:        1850 RPM  (min =    0 RPM, max = 5000 RPM)\n"
    \o "fan3:        1000 RPM  (min =    0 RPM)\n"
    \o "temp2:        +33.0°C\n"

Outputs ==
    {OutDesktop, OutBareFans, OutLaptop, OutNamed, OutZeroMax, OutNoHeader}

\* what subprocess.check_output(['sensors']) does: it raises, or returns a
\* capture
Acquisitions ==
    {[raised |-> TRUE, output |-> ""]}
        \cup {[raised |-> FALSE, output |-> o] : o \in Outputs}

\* current_adapter and "nvme" in current_adapter.lower()
StorageAdapterAny(current_adapter) == current_adapter # ""

StorageAdapter(current_adapter) ==
    current_adapter # "" /\ Contains[Lower[current_adapter], "nvme"]

\* the maximum of fan after a fan line whose third group is max_speed ("":
\* the line has no max-RPM clause)
LearnMaxSpeedOrDefault(max_fan_speeds, fan, max_speed) ==
    IF max_speed # "" THEN Put(max_fan_speeds, fan, ParseInt[max_speed])
    ELSE Put(max_fan_speeds, fan, DefaultMaxFanSpeed)

LearnMaxSpeed(max_fan_speeds, fan, max_speed) ==
    IF max_speed # "" THEN Put(max_fan_speeds, fan, ParseInt[max_speed])
    ELSE IF ~Has(max_fan_speeds, fan)
         THEN Put(max_fan_speeds, fan, DefaultMaxFanSpeed)
         ELSE max_fan_speeds

\* what the body of the scan loop does with one line of the capture under
\* the adapter name current_adapter: which branch takes the line and what
\* its pattern extracts.  op "none": the line changes nothing
NoEffect == [op |-> "none", key |-> "", value |-> 0, max_speed |-> ""]

LineEffect(current_adapter, raw) ==
    LET line == Strip[raw]
    IN  IF line = "" THEN NoEffect
        ELSE IF Contains[line, "Adapter:"]
        THEN [NoEffect EXCEPT !.op = "adapter",
                              !.key = Strip[BeforeFirst[line, ":"]]]
        ELSE IF Contains[line, "Core"] /\ Contains[line, "°C"]
        THEN LET b == Search[CoreRegex, line]
             IN  IF b = << >> THEN NoEffect
                 ELSE [NoEffect EXCEPT !.op = "cpu",
                                       !.key = Group[line, b, 1],
                                       !.value = ParseFloat[Group[line, b, 3]]]
        ELSE IF Contains[line, "Package id"] /\ Contains[line, "°C"]
        THEN LET b == Search[PackageRegex, line]
             IN  IF b = << >> THEN NoEffect
                 ELSE [NoEffect EXCEPT !.op = "cpu",
                                       !.key = Group[line, b, 1],
                                       !.value = ParseFloat[Group[line, b, 3]]]
        ELSE IF Contains[Lower[line], "fan"] /\ Contains[line, "RPM"]
        THEN LET g == FanGroups[line]
             IN  IF g = << >> THEN NoEffect
                 ELSE [NoEffect EXCEPT !.op = "fan",
                                       !.key = g[1],
                                       !.value = ParseInt[g[2]],
                                       !.max_speed = g[3]]
        ELSE IF /\ StorageAdapter(current_adapter)
                /\ Contains[line, "Composite"]
                /\ Contains[line, "°C"]
        THEN LET b == Search[CompositeRegex, line]
             IN  IF b = << >> THEN NoEffect
                 ELSE [NoEffect EXCEPT !.op = "storage",
                                       !.key = "NVMe",
                                       !.value = ParseFloat[Group[line, b, 2]]]
        ELSE IF /\ Contains[Lower[line], "temp"]
                /\ Contains[line, "°C"]
                /\ ~Contains[line, "Core"]
                /\ ~Contains[line, "Package"]
        THEN LET b == Search[TempRegex, line]
             IN  IF b = << >> THEN NoEffect
                 ELSE [NoEffect EXCEPT
                         !.op = "other",
                         !.key = current_adapter \o "_" \o Group[line, b, 1],
                         !.value = ParseFloat[Group[line, b, 3]]]
        ELSE NoEffect

\* the assignments of the branch that took the line; cx is the scan's state
\* so far: the SensorData (sd) and current_adapter
ApplyEffect(cx, e) ==
    CASE e.op = "none"    -> cx
      [] e.op = "adapter" -> [cx EXCEPT !.current_adapter = e.key]
      [] e.op = "cpu"     -> [cx EXCEPT !.sd.cpu_temps = Put(@, e.key, e.value)]
      [] e.op = "fan"     ->
            [cx EXCEPT
               !.sd.fan_speeds = Put(@, e.key, e.value),
               !.sd.max_fan_speeds = LearnMaxSpeed(@, e.key, e.max_speed)]
      [] e.op = "storage" -> [cx EXCEPT !.sd.storage_temps = Put(@, e.key, e.value)]
      [] e.op = "other"   -> [cx EXCEPT !.sd.other_temps = Put(@, e.key, e.value)]

\* output.splitlines(), computed once per capture
CapturedLines == [o \in Outputs |-> SplitLines[o]]

\* every line of every capture, and every adapter name a scan can carry
CaptureLines ==
    UNION {{CapturedLines[o][i] : i \in DOMAIN CapturedLines[o]} : o \in Outputs}

AdapterNames ==
    {InitialAdapter} \cup {Strip[BeforeFirst[Strip[l], ":"]] :
                             l \in {r \in CaptureLines : Contains[r, "Adapter:"]}}

\* LineEffect, computed once per adapter name and line
LineEffects ==
    [a \in AdapterNames, l \in CaptureLines |-> LineEffect(a, l)]

\* one pass of the scan loop
ScanLine(cx, raw) == ApplyEffect(cx, LineEffects[cx.current_adapter, raw])

RECURSIVE ScanLines(_, _, _)
\* for line in output.splitlines(): ..., from line i on.  The state after
\* line i is bound (next) before the scan goes on, here and in the loops
\* below, so that each pass of a loop is computed once.
ScanLines(cx, lines, i) ==
    IF i > Len(lines) THEN cx
    ELSE CHOOSE end \in {ScanLines(next, lines, i + 1) :
                            next \in {ScanLine(cx, lines[i])}} : TRUE

\* SensorData._parse_sensors_output
parse_sensors_output(sd, output) ==
    ScanLines([sd |-> [sd EXCEPT !.cpu_temps = << >>,
                                 !.fan_speeds = << >>,
                                 !.storage_temps = << >>,
                                 !.other_temps = << >>],
               current_adapter |-> InitialAdapter],
              CapturedLines[output], 1).sd

RECURSIVE AppendAll(_, _, _, _)
\* for key, value in current.items(): the history of key is created when
\* missing, and value appended to it; from item i on
AppendAll(history, current, i, maxlen) ==
    IF i > Len(current) THEN history
    ELSE LET key   == current[i][1]
             value == current[i][2]
             dq    == IF Has(history, key) THEN Get(history, key)
                      ELSE NewDeque(maxlen)
         IN  CHOOSE end \in {AppendAll(next, current, i + 1, maxlen) :
                                next \in {Put(history, key,
                                              DequeAppend(dq, value))}} : TRUE

\* the items of d whose key is in keys
Restrict(d, keys) == SelectSeq(d, LAMBDA kv : kv[1] \in keys)

\* _update_histories keeping only the channels of the current snapshot
update_histories_pruning(sd) ==
    [sd EXCEPT
       !.cpu_temp_history     =
           Restrict(AppendAll(@, sd.cpu_temps, 1, sd.max_data_points),
                    Keys(sd.cpu_temps)),
       !.fan_speed_history    =
           Restrict(AppendAll(@, sd.fan_speeds, 1, sd.max_data_points),
                    Keys(sd.fan_speeds)),
       !.storage_temp_history =
           Restrict(AppendAll(@, sd.storage_temps, 1, sd.max_data_points),
                    Keys(sd.storage_temps)),
       !.other_temp_history   =
           Restrict(AppendAll(@, sd.other_temps, 1, sd.max_data_points),
                    Keys(sd.other_temps))]

\* SensorData._update_histories
update_histories(sd) ==
    [sd EXCEPT
       !.cpu_temp_history     = AppendAll(@, sd.cpu_temps, 1, sd.max_data_points),
       !.fan_speed_history    = AppendAll(@, sd.fan_speeds, 1, sd.max_data_points),
       !.storage_temp_history = AppendAll(@, sd.storage_temps, 1, sd.max_data_points),
       !.other_temp_history   = AppendAll(@, sd.other_temps, 1, sd.max_data_points)]

\* the two calls of the try block: _parse_sensors_output(output), then
\* _update_histories() on what it left
parse_and_update_histories(sd, output) ==
    CHOOSE end \in {update_histories(parsed) :
                      parsed \in {parse_sensors_output(sd, output)}} : TRUE

\* update with the current data cleared before the acquisition
SensorDataUpdateClearingFirst(sd, acq) ==
    IF acq.raised
    THEN [sd |-> [sd EXCEPT !.cpu_temps = << >>, !.fan_speeds = << >>,
                            !.storage_temps = << >>, !.other_temps = << >>],
          returned |-> FALSE]
    ELSE [sd |-> parse_and_update_histories(sd, acq.output), returned |-> TRUE]

\* SensorData.update; acq is what subprocess.check_output did: it returned
\* the text acq.output, or it raised and the except clause returns False
SensorDataUpdate(sd, acq) ==
    IF acq.raised
    THEN [sd |-> sd, returned |-> FALSE]
    ELSE [sd |-> parse_and_update_histories(sd, acq.output), returned |-> TRUE]

(***************************************************************************)
(* class SystemMonitor: the render pass                                    *)
(***************************************************************************)
\* the length of x_data, and of every series drawn
PlotPoints == 60

Repeat(v, n) == [i \in 1..n |-> v]

\* data = list(data_queue), padded on the left with its first value
PlotData(dq) ==
    LET data == dq.items
    IN  IF Len(data) < PlotPoints
        THEN Repeat(data[1], PlotPoints - Len(data)) \o data
        ELSE data

RECURSIVE DrawLines(_, _, _)
\* for key, data_queue in data_dict.items(): the line of key gets the padded
\* data as its ydata (set_ydata, or a new line from ax.plot); from item i on
DrawLines(lines_dict, data_dict, i) ==
    IF i > Len(data_dict) THEN lines_dict
    ELSE CHOOSE end \in {DrawLines(next, data_dict, i + 1) :
                            next \in {Put(lines_dict, data_dict[i][1],
                                          PlotData(data_dict[i][2]))}} : TRUE

\* SystemMonitor._update_plot: the lines of the axes after the call, and
\* whether the call cleared the axes (ax.clear(), lines_dict.clear())
update_plot(lines_dict, data_dict) ==
    IF data_dict = << >>
    THEN [lines |-> lines_dict, cleared |-> FALSE]
    ELSE LET changed == Keys(lines_dict) # Keys(data_dict)
         IN  [lines   |-> DrawLines(IF changed THEN << >> ELSE lines_dict,
                                    data_dict, 1),
              cleared |-> changed]

\* min(100, (speed / max_speed) * 100) as the fraction num / den; the
\* division raises ZeroDivisionError when max_speed is 0
Percentage(speed, max_speed) ==
    IF max_speed = 0
    THEN [error |-> "ZeroDivisionError", num |-> 0, den |-> 0]
    ELSE IF speed * 100 >= 100 * max_speed
         THEN [error |-> "", num |-> 100, den |-> 1]
         ELSE [error |-> "", num |-> speed * 100, den |-> max_speed]

RECURSIVE DrawFans(_, _, _)
\* for i, (fan, speed) in enumerate(fan_speeds.items()): the box of fan
\* gets the percentage as its height and the text its label; the loop ends
\* where the percentage raises; from item i on
DrawFans(fi, sd, i) ==
    IF i > Len(sd.fan_speeds) THEN fi
    ELSE LET fan        == sd.fan_speeds[i][1]
             speed      == sd.fan_speeds[i][2]
             max_speed  == IF Has(sd.max_fan_speeds, fan)
                           THEN Get(sd.max_fan_speeds, fan)
                           ELSE DefaultMaxFanSpeed
             percentage == Percentage(speed, max_speed)
         IN  IF percentage.error # ""
             THEN [fi EXCEPT !.raised = TRUE]
             ELSE CHOOSE end \in
                    {DrawFans(next, sd, i + 1) :
                       next \in {[fi EXCEPT
                                   !.boxes = Put(@, fan, percentage),
                                   !.texts = Put(@, fan,
                                                 [fan |-> fan, speed |-> speed,
                                                  percentage |-> percentage])]}} :
                    TRUE

\* SystemMonitor._update_fan_indicators: the boxes and texts after the
\* call, whether it cleared the axes, and whether it raised
update_fan_indicators(boxes, texts, sd) ==
    LET changed == Keys(boxes) # Keys(sd.fan_speeds)
        fi      == [boxes   |-> IF changed THEN << >> ELSE boxes,
                    texts   |-> IF changed THEN << >> ELSE texts,
                    cleared |-> changed,
                    raised  |-> FALSE]
    IN  IF sd.fan_speeds = << >> THEN fi ELSE DrawFans(fi, sd, 1)

\* the configured history capacity: the default, and a small one
Capacities == {2, default_max_data_points}

\* frames the animation runs for
MaxFrames == 3

(***************************************************************************)
(* State                                                                   *)
(***************************************************************************)
VARIABLES
    sensor_data,    \* SystemMonitor.sensor_data, a SensorData
    cpu_lines,      \* dict: key -> the ydata of its line
    storage_lines,
    other_lines,
    fan_boxes,      \* dict: fan -> the height of its box
    fan_texts,      \* dict: fan -> what its label shows
    pc,             \* "constructed", "running", "raised"
    frame,          \* animation frames so far
    acquired,       \* what the last acquisition did
    returned,       \* what the last SensorData.update() returned
    cleared,        \* the axes the last render pass cleared
    appended        \* per history and key, every value appended so far

vars ==
    << sensor_data, cpu_lines, storage_lines, other_lines, fan_boxes,
       fan_texts, pc, frame, acquired, returned, cleared, appended >>

Histories ==
    {"cpu_temp_history", "fan_speed_history", "storage_temp_history",
     "other_temp_history"}

\* the current-snapshot dict a history is fed from
Current(sd, h) ==
    CASE h = "cpu_temp_history"     -> sd.cpu_temps
      [] h = "fan_speed_history"    -> sd.fan_speeds
      [] h = "storage_temp_history" -> sd.storage_temps
      [] h = "other_temp_history"   -> sd.other_temps

RECURSIVE LogAll(_, _, _)
LogAll(log, current, i) ==
    IF i > Len(current) THEN log
    ELSE CHOOSE end \in
           {LogAll(next, current, i + 1) :
              next \in {Put(log, current[i][1],
                            Append(IF Has(log, current[i][1])
                                   THEN Get(log, current[i][1]) ELSE << >>,
                                   current[i][2]))}} : TRUE

\* appended after a call of SensorData.update() that left sd
Logged(sd, ok) ==
    IF ok THEN [h \in Histories |-> LogAll(appended[h], Current(sd, h), 1)]
    ELSE appended

Init ==
    /\ sensor_data \in {NewSensorData(c) : c \in Capacities}
    /\ cpu_lines = << >>
    /\ storage_lines = << >>
    /\ other_lines = << >>
    /\ fan_boxes = << >>
    /\ fan_texts = << >>
    /\ pc = "constructed"
    /\ frame = 0
    /\ acquired = [raised |-> TRUE, output |-> ""]
    /\ returned = FALSE
    /\ cleared = {}
    /\ appended = [h \in Histories |-> << >>]

\* SystemMonitor.__init__: the initial self.sensor_data.update()
InitialUpdate ==
    /\ pc = "constructed"
    /\ \E acq \in Acquisitions :
         \E u \in {SensorDataUpdate(sensor_data, acq)} :
             /\ sensor_data' = u.sd
             /\ returned' = u.returned
             /\ acquired' = acq
             /\ appended' = Logged(u.sd, u.returned)
    /\ pc' = "running"
    /\ UNCHANGED << cpu_lines, storage_lines, other_lines, fan_boxes,
                    fan_texts, frame, cleared >>

\* SystemMonitor.update(frame): one tick of the animation
Update ==
    /\ pc = "running"
    /\ frame < MaxFrames
    /\ \E acq \in Acquisitions :
         \E u \in {SensorDataUpdate(sensor_data, acq)} :
         \E cpu \in {update_plot(cpu_lines, u.sd.cpu_temp_history)} :
         \E fans \in {update_fan_indicators(fan_boxes, fan_texts, u.sd)} :
         \E storage \in {update_plot(storage_lines, u.sd.storage_temp_history)} :
         \E other \in {update_plot(other_lines, u.sd.other_temp_history)} :
             /\ sensor_data' = u.sd
             /\ returned' = u.returned
             /\ acquired' = acq
             /\ appended' = Logged(u.sd, u.returned)
             /\ cpu_lines' = cpu.lines
             /\ fan_boxes' = fans.boxes
             /\ fan_texts' = fans.texts
             /\ IF fans.raised
                THEN /\ pc' = "raised"
                     /\ UNCHANGED << storage_lines, other_lines >>
                     /\ cleared' = {a \in {"cpu", "fan"} :
                                      \/ a = "cpu" /\ cpu.cleared
                                      \/ a = "fan" /\ fans.cleared}
                ELSE /\ pc' = "running"
                     /\ storage_lines' = storage.lines
                     /\ other_lines' = other.lines
                     /\ cleared' = {a \in {"cpu", "fan", "storage", "other"} :
                                      \/ a = "cpu" /\ cpu.cleared
                                      \/ a = "fan" /\ fans.cleared
                                      \/ a = "storage" /\ storage.cleared
                                      \/ a = "other" /\ other.cleared}
    /\ frame' = frame + 1

Next == InitialUpdate \/ Update

Spec == Init /\ [][Next]_vars

(***************************************************************************)
(* What a capture says, read off its text line by line                     *)
(***************************************************************************)
Max(S) == CHOOSE x \in S : \A y \in S : y <= x

\* fanN: <digits> RPM and nothing else
BareFanRegex ==
    << Text("fan") \o << DigitRun >>,
       Text(":") \o << SpaceRun >>,
       << DigitRun >>,
       Text(" RPM") >>

\* for line i of lines: the adapter line in force (0: none yet), the adapter
\* name taken from it, and what kind of reading the line is
LineFacts(lines, i) ==
    LET text    == Strip[lines[i]]
        headers == {j \in 1..(i - 1) : Contains[lines[j], "Adapter:"]}
        comp    == Search[CompositeRegex, text]
        temp    == Search[TempRegex, text]
        fan     == FanGroups[text]
        bare    == MatchSegments[BareFanRegex, 1, text, 1]
        adapter == Contains[text, "Adapter:"]
    IN  [text      |-> text,
         adapter   |-> adapter,
         header    |-> IF headers = {} THEN 0 ELSE Max(headers),
         context   |-> IF headers = {} THEN InitialAdapter
                       ELSE Strip[BeforeFirst[Strip[lines[Max(headers)]], ":"]],
         composite |-> ~adapter /\ comp # << >> /\ comp[1] = 1,
         compvalue |-> IF comp = << >> THEN [n |-> 0, e |-> 0]
                       ELSE ParseFloat[Group[text, comp, 2]],
         temp      |-> /\ ~adapter
                       /\ temp # << >>
                       /\ temp[1] = 1
                       /\ ~Contains[text, "Core"]
                       /\ ~Contains[text, "Package"],
         label     |-> IF temp = << >> THEN "" ELSE Group[text, temp, 1],
         tempvalue |-> IF temp = << >> THEN [n |-> 0, e |-> 0]
                       ELSE ParseFloat[Group[text, temp, 3]],
         fan       |-> IF fan = << >> THEN "" ELSE fan[1],
         clause    |-> IF fan = << >> THEN "" ELSE fan[3],
         bare      |-> bare # << >> /\ bare[5] = Len(text) + 1,
         barefan   |-> IF bare = << >> THEN "" ELSE Group[text, bare, 1],
         barespeed |-> IF bare = << >> THEN 0 ELSE ParseInt[Group[text, bare, 3]]]

CaptureFacts ==
    [o \in Outputs |->
        [i \in 1..Len(CapturedLines[o]) |-> LineFacts(CapturedLines[o], i)]]

\* the facts of the capture the last SensorData.update() parsed; << >> when
\* the acquisition raised
Facts == IF acquired.raised THEN << >> ELSE CaptureFacts[acquired.output]

FactsNext == IF acquired'.raised THEN << >> ELSE CaptureFacts[acquired'.output]

NvmeContext(name) == Contains[Lower[name], "nvme"]

\* the max-RPM values the fan lines of facts carry for fan, in line order
ClauseLines(facts, fan) ==
    {i \in DOMAIN facts : facts[i].fan = fan /\ facts[i].clause # ""}

Axes == {"cpu", "fan", "storage", "other"}

\* what the render pass is given for an axes, and what the axes show
Exposed(sd, a) ==
    CASE a = "cpu"     -> sd.cpu_temp_history
      [] a = "fan"     -> sd.fan_speeds
      [] a = "storage" -> sd.storage_temp_history
      [] a = "other"   -> sd.other_temp_history

Drawn(a) ==
    CASE a = "cpu"     -> cpu_lines
      [] a = "fan"     -> fan_boxes
      [] a = "storage" -> storage_lines
      [] a = "other"   -> other_lines

DrawnNext(a) ==
    CASE a = "cpu"     -> cpu_lines'
      [] a = "fan"     -> fan_boxes'
      [] a = "storage" -> storage_lines'
      [] a = "other"   -> other_lines'

Capacity(sd, fan) ==
    IF Has(sd.max_fan_speeds, fan) THEN Get(sd.max_fan_speeds, fan)
    ELSE DefaultMaxFanSpeed

(***************************************************************************)
(* C1: in every history the deque of a channel holds at most               *)
(* max_data_points values, and once max_data_points or more values have    *)
(* been appended for the channel it holds exactly the last max_data_points *)
(* of them, oldest first.                                                  *)
(***************************************************************************)
C1_RingBufferBound ==
    \A h \in Histories : \A key \in Keys(sensor_data[h]) :
        LET items == Get(sensor_data[h], key).items
            cap   == sensor_data.max_data_points
            log   == IF Has(appended[h], key) THEN Get(appended[h], key) ELSE << >>
        IN  /\ Len(items) <= cap
            /\ Len(log) >= 1
            /\ Len(log) >= cap =>
                  /\ Len(items) = cap
                  /\ items = SubSeq(log, Len(log) - cap + 1, Len(log))

\* a channel whose deque has dropped a value that differs from what it holds
C1_Witness ==
    \E h \in Histories : \E key \in Keys(sensor_data[h]) :
        LET items == Get(sensor_data[h], key).items
            log   == Get(appended[h], key)
        IN  /\ Len(log) > sensor_data.max_data_points
            /\ items # SubSeq(log, 1, Len(items))

(***************************************************************************)
(* C2: a tick whose acquisition raises leaves the SensorData as it was     *)
(* (the four histories, max_fan_speeds and the four current dicts) and     *)
(* update() returns False; a tick whose acquisition succeeds, after a      *)
(* failure or not, returns True and appends the value of every channel of  *)
(* the new snapshot to its history.                                        *)
(***************************************************************************)
C2_FailedTickChangesNothing ==
    [][/\ acquired'.raised =>
            /\ sensor_data' = sensor_data
            /\ returned' = FALSE
            /\ appended' = appended
       /\ ~acquired'.raised =>
            /\ returned' = TRUE
            /\ \A h \in Histories : \A key \in Keys(Current(sensor_data', h)) :
                  /\ Has(sensor_data'[h], key)
                  /\ LET items == Get(sensor_data'[h], key).items
                     IN  items[Len(items)] = Get(Current(sensor_data', h), key)
                  /\ Len(Get(appended'[h], key)) =
                        1 + (IF Has(appended[h], key)
                             THEN Len(Get(appended[h], key)) ELSE 0)]_vars

\* a failed tick after ticks that filled histories and learned a capacity
C2_Witness ==
    /\ acquired.raised
    /\ ~returned
    /\ frame >= 2
    /\ sensor_data.fan_speed_history # << >>
    /\ sensor_data.cpu_temps # << >>
    /\ sensor_data.max_fan_speeds # << >>

(***************************************************************************)
(* C3: the stored maximum of a fan stays in max_fan_speeds and changes     *)
(* only on a tick whose capture has a line of that fan with a max-RPM      *)
(* clause, and then to the value of the last such line; a capture where    *)
(* the fan has no clause, or is absent, or that could not be acquired,     *)
(* leaves it as it was (it does not go back to the default 4000).          *)
(***************************************************************************)
C3_CapacityRetained ==
    [][\A fan \in Keys(sensor_data.max_fan_speeds) :
          /\ Has(sensor_data'.max_fan_speeds, fan)
          /\ Get(sensor_data'.max_fan_speeds, fan) =
                IF ClauseLines(FactsNext, fan) # {}
                THEN ParseInt[FactsNext[Max(ClauseLines(FactsNext, fan))].clause]
                ELSE Get(sensor_data.max_fan_speeds, fan)]_vars

\* fan1, whose maximum 3700 or 5000 came from a clause, seen in a capture
\* where its line has no clause
C3_Witness ==
    /\ ~acquired.raised
    /\ acquired.output = OutBareFans
    /\ Has(sensor_data.fan_speeds, "fan1")
    /\ Has(sensor_data.max_fan_speeds, "fan1")
    /\ Get(sensor_data.max_fan_speeds, "fan1") \in {3700, 5000}

(***************************************************************************)
(* C4: a tick removes no key from any history, and the deque of a key that *)
(* the tick's snapshot does not hold (or of any key, when the acquisition  *)
(* raised) is what it was: same values, same order, same length.           *)
(***************************************************************************)
C4_AbsentChannelsUntouched ==
    [][\A h \in Histories : \A key \in Keys(sensor_data[h]) :
          /\ Has(sensor_data'[h], key)
          /\ (acquired'.raised \/ key \notin Keys(Current(sensor_data', h))) =>
                Get(sensor_data'[h], key) = Get(sensor_data[h], key)]_vars

\* after three ticks, a channel with a history that the last snapshot omits
C4_Witness ==
    /\ frame >= 2
    /\ returned
    /\ \E h \in Histories : \E key \in Keys(sensor_data[h]) :
          /\ key \notin Keys(Current(sensor_data, h))
          /\ Len(Get(appended[h], key)) = 1

C6_BareFanLineSampled ==
    \A i \in DOMAIN Facts :
        Facts[i].bare =>
            LET fan == Facts[i].barefan
            IN  /\ Has(sensor_data.fan_speeds, fan)
                /\ Get(sensor_data.fan_speeds, fan) = Facts[i].barespeed
                /\ ClauseLines(Facts, fan) = {} =>
                      Capacity(sensor_data, fan) = DefaultMaxFanSpeed
                /\ (pc = "running" /\ frame >= 1) =>
                      /\ Has(fan_boxes, fan)
                      /\ Get(fan_boxes, fan) =
                            Percentage(Facts[i].barespeed, Capacity(sensor_data, fan))

(***************************************************************************)
(* C7: storage_temps holds no key but "NVMe", and holds it only when the   *)
(* capture has a Composite line whose adapter name (the text before the    *)
(* first colon of the latest adapter line above it, "unknown" when none)   *)
(* contains "nvme" in any case, with the value of such a line; it holds it *)
(* whenever there is such a line; and every sample of the other three      *)
(* categories comes from a line that is not a Composite line.              *)
(***************************************************************************)
C7_CompositeGatedByAdapter ==
    ~acquired.raised =>
        LET f       == Facts
            gated   == {i \in DOMAIN f : f[i].composite /\ NvmeContext(f[i].context)}
            readers == {i \in DOMAIN f : ~f[i].composite /\ ~f[i].adapter}
        IN  /\ Keys(sensor_data.storage_temps) \subseteq {"NVMe"}
            /\ Has(sensor_data.storage_temps, "NVMe") <=> gated # {}
            /\ Has(sensor_data.storage_temps, "NVMe") =>
                  \E i \in gated :
                      Get(sensor_data.storage_temps, "NVMe") = f[i].compvalue
            /\ \A key \in Keys(sensor_data.cpu_temps) :
                  \E i \in readers : Contains[f[i].text, key \o ":"]
            /\ \A key \in Keys(sensor_data.fan_speeds) :
                  \E i \in readers : Contains[f[i].text, key \o ":"]
            /\ \A key \in Keys(sensor_data.other_temps) :
                  \E i \in readers :
                      /\ f[i].temp
                      /\ key = f[i].context \o "_" \o f[i].label

\* a capture with a Composite line under an nvme adapter, which gave the
\* sample, and another under an adapter that is not, which gave none
C7_Witness ==
    /\ ~acquired.raised
    /\ Has(sensor_data.storage_temps, "NVMe")
    /\ \E i \in DOMAIN Facts :
          /\ Facts[i].composite
          /\ ~NvmeContext(Facts[i].context)
          /\ Facts[i].header # 0
          /\ Get(sensor_data.storage_temps, "NVMe") # Facts[i].compvalue

(***************************************************************************)
(* C8: a render pass computes the percentage of every fan of the current   *)
(* snapshot without failing, as min(100, 100 * speed / capacity) with the  *)
(* stored maximum or 4000 as capacity, a value from 0 to 100.              *)
(***************************************************************************)
C8_PercentDefined ==
    frame >= 1 =>
        /\ pc # "raised"
        /\ \A fan \in Keys(sensor_data.fan_speeds) :
              LET speed == Get(sensor_data.fan_speeds, fan)
                  cap   == Capacity(sensor_data, fan)
                  p     == Get(fan_boxes, fan)
              IN  /\ Has(fan_boxes, fan)
                  /\ cap > 0
                  /\ p.error = ""
                  /\ p.den > 0
                  /\ 0 <= p.num
                  /\ p.num <= 100 * p.den
                  /\ IF 100 * speed <= 100 * cap
                     THEN p.num * cap = 100 * speed * p.den
                     ELSE p.num = 100 * p.den

(***************************************************************************)
(* C9: two generic temperature lines of one capture with the same tempN    *)
(* label under two different adapter lines give other_temps two distinct   *)
(* keys "<adapter>_<tempN>", each with the value of its line.              *)
(***************************************************************************)
C9_AdaptersKeepChannelsApart ==
    ~acquired.raised =>
        \A i, j \in DOMAIN Facts :
            (/\ i < j
             /\ Facts[i].temp
             /\ Facts[j].temp
             /\ Facts[i].label = Facts[j].label
             /\ Facts[i].header # 0
             /\ Facts[j].header # 0
             /\ Facts[Facts[i].header].text # Facts[Facts[j].header].text) =>
                LET ki == Facts[i].context \o "_" \o Facts[i].label
                    kj == Facts[j].context \o "_" \o Facts[j].label
                IN  /\ ki # kj
                    /\ Has(sensor_data.other_temps, ki)
                    /\ Has(sensor_data.other_temps, kj)
                    /\ Get(sensor_data.other_temps, ki) = Facts[i].tempvalue
                    /\ Get(sensor_data.other_temps, kj) = Facts[j].tempvalue

(***************************************************************************)
(* C10: a tick's render pass clears an axes exactly when the key set it is *)
(* given for the axes (fan_speeds for the fans, the history of the other   *)
(* three) differs from the key set the axes showed before the tick, and    *)
(* after the pass every axes with data shows the key set it was given.     *)
(***************************************************************************)
C10_ResetIffKeysChanged ==
    [][frame' = frame + 1 =>
          \A a \in Axes :
              /\ (a \in cleared') <=>
                    Keys(Drawn(a)) # Keys(Exposed(sensor_data', a))
              /\ Exposed(sensor_data', a) # << >> =>
                    Keys(DrawnNext(a)) = Keys(Exposed(sensor_data', a))]_vars
=============================================================================
